---- MODULE Spec2Model ----
(***************************************************************************)
(* Model of examples/05-volumes-memory/app.py: the resource introspection  *)
(* and bounded synthetic-load service (GET /memory, /disk, /volumes,       *)
(* /stress, POST /memory/allocate, /disk/fill, DELETE /disk/cleanup).      *)
(*                                                                         *)
(* The program keeps no state between requests except the filesystem, so   *)
(* the state is the filesystem (fs) plus what a client has observed (log). *)
(* Every handler is one action; what the operating system may answer to a  *)
(* handler (a failing system call, the partitions psutil enumerates, the   *)
(* text of a cgroup file) is an input of the action.                       *)
(*                                                                         *)
(* Two server processes on the same volume run their handlers system call  *)
(* by system call (calls): that is the specification SpecRace.             *)
(***************************************************************************)
EXTENDS Integers, Sequences, FiniteSets, TLC

VARIABLES fs, cgroup, log, client, calls

vars == <<fs, cgroup, log, client, calls>>

(***************************************************************************)
(* Bounds of the model.                                                    *)
(***************************************************************************)
\* how far beyond each safety cap the requested sizes go
MaxOver == 2
\* how many partitions psutil.disk_partitions() enumerates at most
MaxParts == 2
\* on how many candidate paths os.stat may fail in one GET /volumes
MaxFaults == 1
\* longest text of a cgroup accounting file
MaxLen == 3

(***************************************************************************)
(* Program constants.                                                      *)
(***************************************************************************)
MemCap == 1000
DiskCap == 100
MB == 1024 * 1024
\* Python's None
None == {}
Some(v) == {v}

\* the size_mb values a caller sends: around 0 and around both caps
Sizes == (-1 .. 1) \cup ((DiskCap - 1) .. (DiskCap + MaxOver))
                   \cup ((MemCap - 1) .. (MemCap + MaxOver))

(***************************************************************************)
(* The filesystem: a fixed universe of names under the candidate paths,    *)
(* each absent, a directory or a file.  ok: os.path.getsize works on the   *)
(* file (it is still there and may be stat'ed) / os.scandir works on the   *)
(* directory.  mount: os.path.ismount.                                     *)
(***************************************************************************)
volume_paths == <<"/app/data", "/app/logs", "/app/backups", "/tmp", "/var/log">>
test_file == "/app/data/test_file.bin"

Names == {"/app/data", test_file, "/app/data/keep.dat", "/app/data/sub",
          "/app/data/sub/old.bin", "/app/logs", "/app/logs/app.log",
          "/app/backups", "/tmp", "/tmp/scratch", "/var/log"}

Parent == [n \in Names |->
    CASE n \in {test_file, "/app/data/keep.dat", "/app/data/sub"} -> "/app/data"
      [] n = "/app/data/sub/old.bin" -> "/app/data/sub"
      [] n = "/app/logs/app.log" -> "/app/logs"
      [] n = "/tmp/scratch" -> "/tmp"
      [] OTHER -> "/"]

\* os.path.dirname(test_file)
dirname(n) == Parent[n]

Absent == [kind |-> "absent", size |-> 0, ok |-> TRUE, mount |-> FALSE]
File(sz, readable) == [kind |-> "file", size |-> sz, ok |-> readable, mount |-> FALSE]
Dir(listable, mnt) == [kind |-> "dir", size |-> 0, ok |-> listable, mount |-> mnt]

\* os.path.exists
exists(f, n) == f[n].kind # "absent"

(***************************************************************************)
(* os.walk(top): one (dirpath, dirnames, filenames) triple per directory   *)
(* it can list, top-down.  A directory it cannot list (or a top that is no *)
(* directory) yields nothing: os.walk ignores scandir errors by default.   *)
(***************************************************************************)
Children(f, d) == {n \in Names : Parent[n] = d /\ exists(f, n)}

RECURSIVE walk(_, _)
walk(f, top) ==
    IF f[top].kind # "dir" \/ ~f[top].ok THEN {}
    ELSE LET dirnames == {n \in Children(f, top) : f[n].kind = "dir"}
             filenames == {n \in Children(f, top) : f[n].kind = "file"}
         IN  {<<top, dirnames, filenames>>}
                 \cup UNION {walk(f, d) : d \in dirnames}

\* the inner loop of get_directory_size: total_size += getsize, OSError: pass
RECURSIVE SumGetsize(_, _)
SumGetsize(f, filenames) ==
    IF filenames = {} THEN 0
    ELSE LET filepath == CHOOSE n \in filenames : TRUE
             rest == SumGetsize(f, filenames \ {filepath})
         IN  IF f[filepath].ok THEN f[filepath].size + rest ELSE rest

RECURSIVE SumOverWalk(_, _)
SumOverWalk(f, triples) ==
    IF triples = {} THEN 0
    ELSE LET t == CHOOSE t \in triples : TRUE
         IN  SumGetsize(f, t[3]) + SumOverWalk(f, triples \ {t})

\* a variant that gives up at the first file it cannot stat
get_directory_size_abort(f, path) ==
    IF \E t \in walk(f, path) : \E n \in t[3] : ~f[n].ok THEN 0
    ELSE SumOverWalk(f, walk(f, path))

get_directory_size(f, path) == SumOverWalk(f, walk(f, path))

RECURSIVE CountOverWalk(_)
CountOverWalk(triples) ==
    IF triples = {} THEN 0
    ELSE LET t == CHOOSE t \in triples : TRUE
         IN  Cardinality(t[3]) + CountOverWalk(triples \ {t})

\* a variant that counts the directory entries beside the files
count_files_entries(f, path) ==
    LET RECURSIVE C(_)
        C(triples) ==
            IF triples = {} THEN 0
            ELSE LET t == CHOOSE t \in triples : TRUE
                 IN  Cardinality(t[2]) + Cardinality(t[3]) + C(triples \ {t})
    IN  C(walk(f, path))

count_files(f, path) == CountOverWalk(walk(f, path))


(***************************************************************************)
(* An exchange, as the client sees it and as the handler ran it:           *)
(*   op     the endpoint                                                   *)
(*   req    the caller's argument and what the operating system answered   *)
(*   steps  the statements of the handler that were reached, in order      *)
(*   status the HTTP status (500: an exception no handler caught)          *)
(*   body   the JSON body: the returned dict, or HTTPException's detail    *)
(* The "timestamp" of a body (datetime.now()) is left out: no handler      *)
(* reads it and it says nothing about the handler's outcome.               *)
(***************************************************************************)
Exchange(op, req, steps, status, body) ==
    [op |-> op, req |-> req, steps |-> steps, status |-> status, body |-> body]

\* raise HTTPException(status_code, detail)
HTTPException(op, req, steps, status_code, detail) ==
    Exchange(op, req, steps, status_code, [detail |-> detail])

\* an exception that reaches the framework
Unhandled(op, req, steps, exc) ==
    Exchange(op, req, steps, 500, [detail |-> <<"Internal Server Error", exc>>])

OK == 200

(***************************************************************************)
(* GET /volumes                                                            *)
(***************************************************************************)
\* os.getenv of the three surfaced variables (unset in the bare image)
environ == [ENVIRONMENT |-> None, MEMORY_LIMIT |-> None, CPU_LIMIT |-> None]

\* the body of the for loop: the record appended for one candidate path;
\* statFails: os.stat(path) raises although os.path.exists(path) held
VolumeRecord(f, path, statFails) ==
    IF exists(f, path)
    THEN IF statFails
         THEN [path |-> path, exists |-> TRUE, error |-> "stat failed"]
         ELSE [path |-> path, exists |-> TRUE, is_mount |-> f[path].mount,
               size |-> get_directory_size(f, path),
               files |-> count_files(f, path)]
    ELSE [path |-> path, exists |-> FALSE]

\* the for loop over volume_paths, from index i on
RECURSIVE VolumesFrom(_, _, _, _)
VolumesFrom(f, faults, i, volumes) ==
    IF i > Len(volume_paths) THEN volumes
    ELSE VolumesFrom(f, faults, i + 1,
             Append(volumes, VolumeRecord(f, volume_paths[i], i \in faults)))

\* a variant whose first failing path ends the enumeration (a break in the
\* except branch)
VolumesLoop_break(f, faults) ==
    LET RECURSIVE L(_, _)
        L(i, volumes) ==
            IF i > Len(volume_paths) THEN volumes
            ELSE LET r == VolumeRecord(f, volume_paths[i], i \in faults)
                 IN  IF "error" \in DOMAIN r THEN Append(volumes, r)
                     ELSE L(i + 1, Append(volumes, r))
    IN  L(1, <<>>)

VolumesLoop(f, faults) == VolumesFrom(f, faults, 1, <<>>)

get_volume_info(f, faults) ==
    Exchange("volumes", [faults |-> faults], <<"loop", "return">>, OK,
             [volumes |-> VolumesLoop(f, faults),
              environment_variables |-> environ])

(***************************************************************************)
(* GET /disk                                                               *)
(***************************************************************************)
\* (used / total) * 100, in whole percent; the caller sees to total # 0
Percent(used, total) == (used * 100) \div total

\* the for loop over psutil.disk_partitions(), from index i on: the partitions
\* appended, or the exception that left the loop.  Only PermissionError is
\* caught; the division by a total of 0 raises ZeroDivisionError.
RECURSIVE PartitionsFrom(_, _, _)
PartitionsFrom(parts, i, partitions) ==
    IF i > Len(parts) THEN [raised |-> "", partitions |-> partitions]
    ELSE LET p == parts[i]
         IN  IF p.denied THEN PartitionsFrom(parts, i + 1, partitions)
             ELSE IF p.total = 0
                  THEN [raised |-> "ZeroDivisionError", partitions |-> partitions]
                  ELSE PartitionsFrom(parts, i + 1, Append(partitions,
                           [device |-> p.device, mountpoint |-> p.mountpoint,
                            fstype |-> p.fstype, total |-> p.total,
                            used |-> p.used, free |-> p.free,
                            percent |-> Percent(p.used, p.total)]))

get_disk_info(disk_usage, parts) ==
    LET req == [disk_usage |-> disk_usage, partitions |-> parts]
        loop == PartitionsFrom(parts, 1, <<>>)
    IN  IF loop.raised # ""
        THEN Unhandled("disk", req, <<"disk_usage", "loop">>, loop.raised)
        ELSE Exchange("disk", req, <<"disk_usage", "loop", "return">>, OK,
                 [root_disk |-> [total |-> disk_usage.total,
                                 used |-> disk_usage.used,
                                 free |-> disk_usage.free,
                                 percent |-> Percent(disk_usage.used, disk_usage.total)],
                  partitions |-> loop.partitions])

(***************************************************************************)
(* LimitResolver: get_memory_limit, get_cgroup_memory.  A cgroup source is *)
(* missing, unreadable (open or read raises) or present with a text, a     *)
(* sequence of characters.                                                 *)
(***************************************************************************)
Whitespace == {" ", "\n"}
Digits == <<"0", "1", "2", "3", "4", "5", "6", "7", "8", "9">>
IsDigit(c) == \E d \in 1..10 : Digits[d] = c
DigitValue(c) == (CHOOSE d \in 1..10 : Digits[d] = c) - 1

\* str.strip()
RECURSIVE lstrip(_)
lstrip(s) == IF s # <<>> /\ Head(s) \in Whitespace THEN lstrip(Tail(s)) ELSE s
RECURSIVE rstrip(_)
rstrip(s) ==
    IF s # <<>> /\ s[Len(s)] \in Whitespace THEN rstrip(SubSeq(s, 1, Len(s) - 1))
    ELSE s
strip(s) == rstrip(lstrip(s))

\* the value of a digit string, most significant digit first
RECURSIVE DecimalValue(_)
DecimalValue(s) ==
    IF s = <<>> THEN 0
    ELSE DecimalValue(SubSeq(s, 1, Len(s) - 1)) * 10 + DigitValue(s[Len(s)])

\* int(text): None stands for ValueError.  An optional sign, then digits.
int(s) ==
    LET t == strip(s)
        signed == t # <<>> /\ Head(t) \in {"-", "+"}
        digits == IF signed THEN Tail(t) ELSE t
    IN  IF digits = <<>> \/ \E k \in 1..Len(digits) : ~IsDigit(digits[k])
        THEN None
        ELSE Some(IF signed /\ Head(t) = "-" THEN 0 - DecimalValue(digits)
                  ELSE DecimalValue(digits))

\* try: with open(file) as f: return int(f.read().strip())  except: return None
ReadCgroupInt(source) ==
    IF source.kind # "present" THEN None ELSE int(strip(source.text))

\* cg: the two accounting files, by name
get_memory_limit(cg) == ReadCgroupInt(cg.limit_in_bytes)

\* a variant that opens the limit file where the usage file is meant
get_cgroup_memory_wrongfile(cg) == ReadCgroupInt(cg.limit_in_bytes)

get_cgroup_memory(cg) == ReadCgroupInt(cg.usage_in_bytes)

(***************************************************************************)
(* GET /memory                                                             *)
(***************************************************************************)
\* memory, swap: psutil.virtual_memory() and psutil.swap_memory()
get_memory_info(memory, swap, cg) ==
    Exchange("memory", [memory |-> memory, swap |-> swap, cgroup |-> cg],
             <<"virtual_memory", "swap_memory", "return">>, OK,
             [virtual_memory |-> memory,
              swap_memory |-> swap,
              container_info |->
                  [memory_limit |-> get_memory_limit(cg),
                   cgroup_memory |-> get_cgroup_memory(cg)]])

(***************************************************************************)
(* POST /memory/allocate                                                   *)
(***************************************************************************)
\* oom: bytearray raises MemoryError; vm: psutil.virtual_memory() afterwards.
\* A negative size makes bytearray raise ValueError, which nothing catches.
allocate_memory_body(req, steps) ==
    LET size_mb == req.size_mb
    IN  IF size_mb * MB < 0
        THEN Unhandled("allocate", req, Append(steps, "bytearray"), "ValueError")
        ELSE IF req.oom
        THEN HTTPException("allocate", req, Append(steps, "bytearray"), 507,
                           <<"Insufficient memory">>)
        ELSE Exchange("allocate", req,
                 steps \o <<"bytearray", "touch", "return">>, OK,
                 [message |-> <<"Allocated", size_mb, "MB of memory">>,
                  memory_used |-> req.vm.used,
                  memory_percent |-> req.vm.percent])

\* a variant that validates the size only after the buffer is allocated
allocate_memory_checklate(req) ==
    LET e == allocate_memory_body(req, <<>>)
    IN  IF e.status = OK /\ req.size_mb > MemCap
        THEN HTTPException("allocate", req, Append(e.steps, "check"), 400,
                           <<"Size too large", MemCap>>)
        ELSE e

allocate_memory(req) ==
    IF req.size_mb > MemCap
    THEN HTTPException("allocate", req, <<"check">>, 400,
                       <<"Size too large", MemCap>>)
    ELSE allocate_memory_body(req, <<"check">>)

(***************************************************************************)
(* POST /disk/fill                                                         *)
(***************************************************************************)
\* len(b'0' * k): a negative count gives the empty bytes
BytesLen(k) == IF k > 0 THEN k ELSE 0

\* os.makedirs(dirname, exist_ok=True), assuming it does not raise
makedirs(f, d) == IF exists(f, d) THEN f ELSE [f EXCEPT ![d] = Dir(TRUE, FALSE)]

\* a variant that writes size_mb KB
FillBytes_kb(size_mb) == BytesLen(size_mb * 1024)

\* what fill_disk writes for a request: b'0' * (size_mb * 1024 * 1024)
FillBytes(size_mb) == BytesLen(size_mb * MB)

\* a variant that opens the file for appending: mode 'ab'
write_append(f, n) ==
    IF f[test_file].kind # "file" THEN f
    ELSE [f EXCEPT ![test_file] = File(f[test_file].size + n, TRUE)]

\* f.write(data) of n bytes through a descriptor of open(test_file, 'wb')
\* that has written nothing yet: the bytes go to offsets 0 .. n-1 of the file
\* as it is now, which keeps what it has beyond them.  After a removal of
\* the name the bytes go to the unlinked file and the directory shows nothing.
write(f, n) ==
    IF f[test_file].kind # "file" THEN f
    ELSE [f EXCEPT ![test_file] =
              File(IF f[test_file].size > n THEN f[test_file].size ELSE n, TRUE)]

\* a variant that opens the file without truncating it: mode 'r+b'
open_notrunc(f) ==
    IF f[test_file].kind = "file" THEN f
    ELSE [f EXCEPT ![test_file] = File(0, TRUE)]

\* open(test_file, 'wb'): creates the file or truncates it to 0 bytes; the
\* descriptor starts at offset 0
open_wb(f) == [f EXCEPT ![test_file] = File(0, TRUE)]

\* the try block.  req.fault names the system call that raises OSError, if
\* one does (at: "makedirs", "open", "write", or "" for none), its errno, and
\* for a failed write the bytes that reached the file before it.
\* a variant in which the failing open has already created or truncated the
\* file
fill_disk_try_created(f, req, steps) ==
    LET d == dirname(test_file)
        made == makedirs(f, d)
        opened == open_wb(made)
        partial == write(opened, req.fault.written)
        written == write(opened, FillBytes(req.size_mb))
        failed(g, at) ==
            [fs |-> g,
             ex |-> HTTPException("fill", req, steps \o at, 507,
                                  <<"Disk full", req.fault.errno>>)]
    IN  CASE req.fault.at = "makedirs" -> failed(f, <<"makedirs">>)
          [] req.fault.at = "open" -> failed(opened, <<"makedirs", "open">>)
          [] req.fault.at = "write" ->
                 failed(partial, <<"makedirs", "open", "write">>)
          [] OTHER ->
                 [fs |-> written,
                  ex |-> Exchange("fill", req,
                             steps \o <<"makedirs", "open", "write", "return">>, OK,
                             [message |-> <<"Created", req.size_mb, "MB test file">>,
                              file_path |-> test_file,
                              disk_usage |-> get_directory_size(written, d)])]

fill_disk_try(f, req, steps) ==
    LET d == dirname(test_file)
        made == makedirs(f, d)
        opened == open_wb(made)
        partial == write(opened, req.fault.written)
        written == write(opened, FillBytes(req.size_mb))
        failed(g, at) ==
            [fs |-> g,
             ex |-> HTTPException("fill", req, steps \o at, 507,
                                  <<"Disk full", req.fault.errno>>)]
    IN  CASE req.fault.at = "makedirs" -> failed(f, <<"makedirs">>)
          [] req.fault.at = "open" -> failed(made, <<"makedirs", "open">>)
          [] req.fault.at = "write" ->
                 failed(partial, <<"makedirs", "open", "write">>)
          [] OTHER ->
                 [fs |-> written,
                  ex |-> Exchange("fill", req,
                             steps \o <<"makedirs", "open", "write", "return">>, OK,
                             [message |-> <<"Created", req.size_mb, "MB test file">>,
                              file_path |-> test_file,
                              disk_usage |-> get_directory_size(written, d)])]

\* a variant that checks the size against the memory cap
fill_disk_memcap(f, req) ==
    IF req.size_mb > MemCap
    THEN [fs |-> f, ex |-> HTTPException("fill", req, <<"check">>, 400,
                                         <<"Size too large", DiskCap>>)]
    ELSE fill_disk_try(f, req, <<"check">>)

fill_disk(f, req) ==
    IF req.size_mb > DiskCap
    THEN [fs |-> f, ex |-> HTTPException("fill", req, <<"check">>, 400,
                                         <<"Size too large", DiskCap>>)]
    ELSE fill_disk_try(f, req, <<"check">>)

(***************************************************************************)
(* DELETE /disk/cleanup                                                    *)
(***************************************************************************)
\* os.remove(test_file), assuming it does not raise
remove(f, n) == [f EXCEPT ![n] = Absent]

\* a variant that reports the removal without doing it
cleanup_disk_noremove(f, req) ==
    IF exists(f, test_file)
    THEN [fs |-> f, ex |-> Exchange("cleanup", req, <<"exists", "remove", "return">>,
                                    OK, [message |-> <<"Test file removed">>])]
    ELSE [fs |-> f, ex |-> Exchange("cleanup", req, <<"exists", "return">>,
                                    OK, [message |-> <<"No test file found">>])]

\* req.errno: the OSError os.remove raises, "" for none
cleanup_disk(f, req) ==
    IF exists(f, test_file)
    THEN IF req.errno # ""
         THEN [fs |-> f, ex |-> HTTPException("cleanup", req, <<"exists", "remove">>,
                                              500, <<req.errno>>)]
         ELSE [fs |-> remove(f, test_file),
               ex |-> Exchange("cleanup", req, <<"exists", "remove", "return">>,
                               OK, [message |-> <<"Test file removed">>])]
    ELSE [fs |-> f, ex |-> Exchange("cleanup", req, <<"exists", "return">>,
                                    OK, [message |-> <<"No test file found">>])]

(***************************************************************************)
(* GET /stress                                                             *)
(***************************************************************************)
\* The two loops run a fixed number of iterations (range(1000000) and
\* range(10000)) and call nothing that can block or raise.
\* req: time.time() at the start and at the end, psutil.cpu_percent() and
\* virtual_memory().percent as sampled before (cpu_start, memory_start) and
\* when the result is built.  cpu_start and memory_start are assigned and
\* never read.
stress_test(req) ==
    Exchange("stress", req,
             <<"start_time", "cpu_start", "cpu_loop", "memory_start",
               "list_loop", "end_time", "return">>, OK,
             [message |-> <<"Stress test completed">>,
              duration |-> req.end_time - req.start_time,
              cpu_usage |-> req.cpu_end,
              memory_usage |-> req.memory_end])

(***************************************************************************)
(* What the operating system may answer.                                   *)
(***************************************************************************)
VmSamples == {[total |-> 16, available |-> 8, used |-> 6, free |-> 2,
               percent |-> 50, cached |-> 5, buffers |-> 1]}
SwapSamples == {[total |-> 4, used |-> 1, free |-> 3, percent |-> 25]}
RootUsage == [total |-> 100, used |-> 40, free |-> 60]

\* a partition psutil enumerates: its usage can be read, reads as all zero
\* (a pseudo filesystem), or disk_usage raises PermissionError
PartitionSamples ==
    {[device |-> "/dev/sda1", mountpoint |-> "/", fstype |-> "ext4",
      total |-> 100, used |-> 40, free |-> 60, denied |-> FALSE],
     [device |-> "overlay", mountpoint |-> "/run/empty", fstype |-> "overlay",
      total |-> 0, used |-> 0, free |-> 0, denied |-> FALSE],
     [device |-> "/dev/sdb1", mountpoint |-> "/secret", fstype |-> "ext4",
      total |-> 50, used |-> 10, free |-> 40, denied |-> TRUE]}

SeqsUpTo(S, n) == UNION {[1..k -> S] : k \in 0..n}

NoFault == [at |-> "", errno |-> "", written |-> 0]

\* the OSErrors the three system calls of fill_disk can raise in state f
FillFaults(f, size_mb) ==
    {NoFault}
    \cup (IF exists(f, dirname(test_file)) THEN {}
          ELSE {[at |-> "makedirs", errno |-> e, written |-> 0] :
                    e \in {"EACCES", "ENOSPC"}})
    \cup {[at |-> "open", errno |-> "EACCES", written |-> 0]}
    \cup (IF exists(f, test_file) THEN {}
          ELSE {[at |-> "open", errno |-> "ENOSPC", written |-> 0]})
    \cup (IF FillBytes(size_mb) = 0 THEN {}
          ELSE {[at |-> "write", errno |-> "ENOSPC", written |-> w] :
                    w \in {0, FillBytes(size_mb) \div 2}})

StressSamples ==
    {[start_time |-> 0, end_time |-> d, cpu_start |-> 10, cpu_end |-> c,
      memory_start |-> 40, memory_end |-> 41] : d \in {0, 1}, c \in {10, 90}}

\* the cgroup v1 accounting files
Missing == [kind |-> "missing", text |-> <<>>]
Unreadable == [kind |-> "unreadable", text |-> <<>>]
Present(text) == [kind |-> "present", text |-> text]
CgroupAlphabet == {"7", "\n", "-", "x"}
CgroupSources ==
    {Missing, Unreadable} \cup {Present(t) : t \in SeqsUpTo(CgroupAlphabet, MaxLen)}
\* a host without cgroup v1 memory accounting
NoCgroup == [limit_in_bytes |-> Missing, usage_in_bytes |-> Missing]

(***************************************************************************)
(* The initial filesystems: /app/data missing, or a volume holding any of  *)
(* a file that can or cannot be stat'ed, a subdirectory that can or cannot *)
(* be listed, and a test file left by an earlier container.                *)
(***************************************************************************)
OtherDirs ==
    [n \in Names |->
        CASE n = "/app/logs" -> Dir(TRUE, FALSE)
          [] n = "/app/logs/app.log" -> File(7, TRUE)
          [] n = "/tmp" -> Dir(TRUE, FALSE)
          [] n = "/tmp/scratch" -> File(4, FALSE)
          [] n = "/var/log" -> Dir(FALSE, FALSE)
          [] OTHER -> Absent]

KeepChoices == {Absent, File(3, TRUE), File(3, FALSE)}
SubChoices == {<<Absent, Absent>>, <<Dir(TRUE, FALSE), Absent>>,
               <<Dir(TRUE, FALSE), File(5, TRUE)>>,
               <<Dir(TRUE, FALSE), File(5, FALSE)>>,
               <<Dir(FALSE, FALSE), File(5, TRUE)>>}
TestChoices == {Absent, File(2 * MB, TRUE)}
BackupChoices == {Absent, Dir(TRUE, TRUE)}

InitFs ==
    {[OtherDirs EXCEPT !["/app/backups"] = b] : b \in BackupChoices}
    \cup {[OtherDirs EXCEPT !["/app/data"] = Dir(TRUE, TRUE),
                            !["/app/data/keep.dat"] = k,
                            !["/app/data/sub"] = s[1],
                            !["/app/data/sub/old.bin"] = s[2],
                            ![test_file] = t] :
              k \in KeepChoices, s \in SubChoices, t \in TestChoices}

(***************************************************************************)
(* The client.  It calls the endpoints one at a time, in any order, and    *)
(* keeps the last exchange (log); or it runs one of the scripts, keeping   *)
(* every exchange of the script, and stops the script at the first         *)
(* response that is not a 200.  Of a /volumes response a script keeps the  *)
(* record of the path it watches, /app/data.  client.start is the          *)
(* filesystem the script started from.                                     *)
(***************************************************************************)
Scripts == [fill_scenario |-> <<"volumes", "fill", "volumes", "cleanup", "volumes">>,
            cleanup_twice |-> <<"cleanup", "cleanup">>]

Idle == [script |-> "none", pos |-> 0, start |-> <<>>]

Watched == volume_paths[1]

\* what a script keeps of an exchange
Noted(ex) ==
    IF ex.op = "volumes"
    THEN Exchange("volumes", [watched |-> Watched], <<>>, ex.status,
             [volumes |-> SelectSeq(ex.body.volumes, LAMBDA r : r.path = Watched)])
    ELSE ex

\* the client may call op now
MayCall(op) ==
    IF client.script = "none" THEN TRUE
    ELSE IF client.pos = 0 THEN FALSE
    ELSE Scripts[client.script][client.pos] = op

\* the handler ran: the filesystem it leaves and the exchange it produced
Serve(f, ex) ==
    /\ fs' = f
    /\ cgroup' = cgroup
    /\ calls' = calls
    /\ IF client.script = "none"
       THEN log' = <<ex>> /\ client' = Idle
       ELSE /\ log' = Append(log, Noted(ex))
            /\ client' = [client EXCEPT !.pos =
                   IF ex.status = OK /\ client.pos < Len(Scripts[client.script])
                   THEN client.pos + 1 ELSE 0]

Init ==
    /\ fs \in InitFs
    /\ cgroup = NoCgroup
    /\ log = <<>>
    /\ client = Idle
    /\ calls = <<>>

GetMemoryInfo ==
    /\ MayCall("memory")
    /\ \E memory \in VmSamples, swap \in SwapSamples :
           Serve(fs, get_memory_info(memory, swap, cgroup))

GetDiskInfo ==
    /\ MayCall("disk")
    /\ \E parts \in SeqsUpTo(PartitionSamples, MaxParts) :
           Serve(fs, get_disk_info(RootUsage, parts))

GetVolumeInfo ==
    /\ MayCall("volumes")
    /\ \E faults \in SUBSET {i \in 1..Len(volume_paths) : exists(fs, volume_paths[i])} :
           /\ Cardinality(faults) <= MaxFaults
           /\ Serve(fs, get_volume_info(fs, faults))

AllocateMemory ==
    /\ MayCall("allocate")
    /\ \E size_mb \in Sizes, oom \in BOOLEAN, vm \in VmSamples :
           /\ oom => size_mb > 0
           /\ Serve(fs, allocate_memory([size_mb |-> size_mb, oom |-> oom, vm |-> vm]))

FillDisk ==
    /\ MayCall("fill")
    /\ \E size_mb \in Sizes :
           \E fault \in IF size_mb > DiskCap THEN {NoFault} ELSE FillFaults(fs, size_mb) :
               LET r == fill_disk(fs, [size_mb |-> size_mb, fault |-> fault])
               IN  Serve(r.fs, r.ex)

CleanupDisk ==
    /\ MayCall("cleanup")
    /\ \E errno \in {"", "EACCES"} :
           /\ errno # "" => exists(fs, test_file)
           /\ LET r == cleanup_disk(fs, [errno |-> errno])
              IN  Serve(r.fs, r.ex)

StressTest ==
    /\ MayCall("stress")
    /\ \E req \in StressSamples : Serve(fs, stress_test(req))

Next ==
    \/ GetMemoryInfo
    \/ GetDiskInfo
    \/ GetVolumeInfo
    \/ AllocateMemory
    \/ FillDisk
    \/ CleanupDisk
    \/ StressTest

Spec == Init /\ [][Next]_vars

\* the client starts a script
BeginScript ==
    /\ client.script = "none"
    /\ \E s \in DOMAIN Scripts :
           client' = [script |-> s, pos |-> 1, start |-> fs]
    /\ log' = <<>>
    /\ UNCHANGED <<fs, cgroup, calls>>

\* the script is over (run to its end, or stopped): the client drops its log
EndScript ==
    /\ client.script # "none" /\ client.pos = 0
    /\ client' = Idle
    /\ log' = <<>>
    /\ UNCHANGED <<fs, cgroup, calls>>

NextScript == Next \/ BeginScript \/ EndScript

SpecScript == Init /\ [][NextScript]_vars

\* one GET /memory on a host with any pair of cgroup sources
InitMem ==
    /\ fs = OtherDirs
    /\ cgroup \in [limit_in_bytes : CgroupSources, usage_in_bytes : CgroupSources]
    /\ log = <<>>
    /\ client = Idle
    /\ calls = <<>>

NextMem == GetMemoryInfo

SpecMem == InitMem /\ [][NextMem]_vars

(***************************************************************************)
(* Two handlers in flight at once (two server processes, or two containers *)
(* on the same volume): calls[i] is the exchange of call i so far, with    *)
(* its position pc in the handler, the result found of os.path.exists, and *)
(* the moments opened and wrote of its open and its write (0: not yet).    *)
(* Every system call is one step; none fails for a reason of its own here  *)
(* (Spec covers those), only for what the other call did.                  *)
(***************************************************************************)
\* the sizes of the racing fill_disk calls
RaceSizes == {s \in Sizes : s <= DiskCap + 1}

\* a handler entered with its request (cleanup_disk takes no parameter)
NewCall(op, req) ==
    [op |-> op, req |-> req, steps |-> <<>>, status |-> 0,
     body |-> <<>>, pc |-> IF op = "fill" THEN "check" ELSE "exists",
     found |-> FALSE, opened |-> 0, wrote |-> 0]

\* the steps taken so far, plus the one being taken
Now == Len(calls[1].steps) + Len(calls[2].steps) + 1

\* call i took a step: the fields it set, the step's name, where it goes next
Took(i, c, step, pc) ==
    calls' = [calls EXCEPT ![i] = [c EXCEPT !.steps = Append(@, step), !.pc = pc]]

\* call i ended with this exchange
Ended(i, ex) ==
    calls' = [calls EXCEPT ![i] =
                 [@ EXCEPT !.steps = ex.steps, !.status = ex.status,
                           !.body = ex.body, !.pc = "done"]]

InitRace ==
    /\ fs \in InitFs
    /\ cgroup = NoCgroup
    /\ log = <<>>
    /\ client = Idle
    /\ \/ \E a \in RaceSizes, b \in RaceSizes :
              calls = <<NewCall("fill", [size_mb |-> a]),
                        NewCall("fill", [size_mb |-> b])>>
       \/ calls = <<NewCall("cleanup", <<>>), NewCall("cleanup", <<>>)>>

\* if size_mb > 100: raise HTTPException(400)
FillCheck(i) ==
    /\ calls[i].op = "fill" /\ calls[i].pc = "check"
    /\ IF calls[i].req.size_mb > DiskCap
       THEN Ended(i, fill_disk(fs, calls[i].req).ex)
       ELSE Took(i, calls[i], "check", "makedirs")
    /\ UNCHANGED <<fs, cgroup, log, client>>

FillMakedirs(i) ==
    /\ calls[i].pc = "makedirs"
    /\ fs' = makedirs(fs, dirname(test_file))
    /\ Took(i, calls[i], "makedirs", "open")
    /\ UNCHANGED <<cgroup, log, client>>

FillOpen(i) ==
    /\ calls[i].pc = "open"
    /\ fs' = open_wb(fs)
    /\ Took(i, [calls[i] EXCEPT !.opened = Now], "open", "write")
    /\ UNCHANGED <<cgroup, log, client>>

FillWrite(i) ==
    /\ calls[i].pc = "write"
    /\ fs' = write(fs, FillBytes(calls[i].req.size_mb))
    /\ Took(i, [calls[i] EXCEPT !.wrote = Now], "write", "fill_return")
    /\ UNCHANGED <<cgroup, log, client>>

FillReturn(i) ==
    /\ calls[i].pc = "fill_return"
    /\ Ended(i, Exchange("fill", calls[i].req, Append(calls[i].steps, "return"), OK,
                    [message |-> <<"Created", calls[i].req.size_mb, "MB test file">>,
                     file_path |-> test_file,
                     disk_usage |-> get_directory_size(fs, dirname(test_file))]))
    /\ UNCHANGED <<fs, cgroup, log, client>>

\* if os.path.exists(test_file)
CleanupExists(i) ==
    /\ calls[i].op = "cleanup" /\ calls[i].pc = "exists"
    /\ Took(i, [calls[i] EXCEPT !.found = exists(fs, test_file)], "exists",
            IF exists(fs, test_file) THEN "remove" ELSE "cleanup_return")
    /\ UNCHANGED <<fs, cgroup, log, client>>

\* os.remove(test_file): FileNotFoundError if the name is gone, which the
\* handler's except Exception turns into the 500
CleanupRemove(i) ==
    /\ calls[i].pc = "remove"
    /\ IF exists(fs, test_file)
       THEN fs' = remove(fs, test_file) /\ Took(i, calls[i], "remove", "cleanup_return")
       ELSE /\ fs' = fs
            /\ Ended(i, HTTPException("cleanup", calls[i].req,
                            Append(calls[i].steps, "remove"), 500, <<"ENOENT">>))
    /\ UNCHANGED <<cgroup, log, client>>

CleanupReturn(i) ==
    /\ calls[i].pc = "cleanup_return"
    /\ Ended(i, Exchange("cleanup", calls[i].req, Append(calls[i].steps, "return"), OK,
                    [message |-> IF calls[i].found THEN <<"Test file removed">>
                                 ELSE <<"No test file found">>]))
    /\ UNCHANGED <<fs, cgroup, log, client>>

NextRace ==
    \/ \E i \in DOMAIN calls : FillCheck(i)
    \/ \E i \in DOMAIN calls : FillMakedirs(i)
    \/ \E i \in DOMAIN calls : FillOpen(i)
    \/ \E i \in DOMAIN calls : FillWrite(i)
    \/ \E i \in DOMAIN calls : FillReturn(i)
    \/ \E i \in DOMAIN calls : CleanupExists(i)
    \/ \E i \in DOMAIN calls : CleanupRemove(i)
    \/ \E i \in DOMAIN calls : CleanupReturn(i)

SpecRace == InitRace /\ [][NextRace]_vars

(***************************************************************************)
(* Properties.                                                             *)
(***************************************************************************)
Exchanges(op) == {i \in DOMAIN log : log[i].op = op}
Reached(ex, step) == \E k \in DOMAIN ex.steps : ex.steps[k] = step

\* C1: every allocate_memory call with size_mb > 1000 ends in the 400
\* rejection, and the only statement it reached is the size check: the
\* bytearray allocation and the touch loop are never reached.
C1_AllocateRejectsBeforeAllocating ==
    \A i \in Exchanges("allocate") :
        log[i].req.size_mb > MemCap =>
            /\ log[i].status = 400
            /\ log[i].steps = <<"check">>
            /\ ~Reached(log[i], "bytearray") /\ ~Reached(log[i], "touch")

C1_Witness ==
    \E i \in Exchanges("allocate") :
        log[i].req.size_mb > MemCap /\ log[i].status = 400

\* C2: every fill_disk call with size_mb > 100 ends in the 400 rejection and
\* the step leaves the test file and its parent directory as they were.
C2_FillRejectsAndWritesNothing ==
    [][(log' # <<>> /\ log'[Len(log')].op = "fill"
            /\ log'[Len(log')].req.size_mb > DiskCap)
        => /\ log'[Len(log')].status = 400
           /\ log'[Len(log')].steps = <<"check">>
           /\ fs'[test_file] = fs[test_file]
           /\ fs'[dirname(test_file)] = fs[dirname(test_file)]]_vars

C2_Witness ==
    \E i \in Exchanges("fill") :
        /\ log[i].req.size_mb > DiskCap /\ log[i].status = 400
        /\ ~exists(fs, dirname(test_file))

\* C3, as claimed: in two cleanup_disk calls made one after the other, from
\* any state of the test file, both end without an error response, the test
\* file is absent after the first, and the second reports "No test file found".
C3_Original ==
    client.script = "cleanup_twice" =>
        /\ \A i \in DOMAIN log : log[i].status = OK
        /\ Len(log) >= 1 => ~exists(fs, test_file)
        /\ Len(log) = 2 => log[2].body.message = <<"No test file found">>

\* C3, amended: a cleanup_disk call ends in the 500 response only when
\* os.remove raised on a test file that is present, and then the file stays;
\* if the first of two calls in a row ends without error, the test file is
\* absent after it and the second call ends without error, reporting
\* "No test file found".
C3_CleanupTwice ==
    client.script = "cleanup_twice" =>
        /\ \A i \in DOMAIN log :
               \/ log[i].status = OK
               \/ /\ log[i].status = 500
                  /\ log[i].req.errno # ""
                  /\ Reached(log[i], "remove")
                  /\ exists(fs, test_file)
        /\ (Len(log) >= 1 /\ log[1].status = OK) => ~exists(fs, test_file)
        /\ Len(log) = 2 =>
               /\ log[1].status = OK /\ log[2].status = OK
               /\ log[2].body.message = <<"No test file found">>

C3_Witness ==
    /\ client.script = "cleanup_twice"
    /\ Len(log) = 2
    /\ log[1].body.message = <<"Test file removed">>
    /\ log[2].body.message = <<"No test file found">>

\* the record of /app/data a script kept from its i-th exchange
Rec(i) == log[i].body.volumes[1]
\* a record that shows a size and a file count; a path that does not exist
\* is read as holding 0 bytes in 0 files
Shown(r) == ~r.exists \/ {"size", "files"} \subseteq DOMAIN r
SizeOf(r) == IF r.exists THEN r.size ELSE 0
FilesOf(r) == IF r.exists THEN r.files ELSE 0

\* C4, as claimed: from any reachable state, after a successful
\* fill_disk(size_mb) GET /volumes shows the size of /app/data grown by at
\* least size_mb MB and its file count grown by exactly 1 over the GET
\* /volumes just before the fill; a following cleanup_disk removes the file
\* and the next GET /volumes shows the size and the count of before the fill.
\* (Stated for the runs whose GET /volumes show a size for /app/data.)
C4_Original ==
    client.script = "fill_scenario" =>
        /\ (Len(log) >= 3 /\ Shown(Rec(1)) /\ Shown(Rec(3))) =>
               /\ SizeOf(Rec(3)) >= SizeOf(Rec(1)) + log[2].req.size_mb * MB
               /\ FilesOf(Rec(3)) = FilesOf(Rec(1)) + 1
        /\ Len(log) >= 4 =>
               /\ log[4].status = OK
               /\ log[4].body.message = <<"Test file removed">>
        /\ (Len(log) = 5 /\ Shown(Rec(1)) /\ Shown(Rec(5))) =>
               /\ SizeOf(Rec(5)) = SizeOf(Rec(1))
               /\ FilesOf(Rec(5)) = FilesOf(Rec(1))

\* C4, amended: the same, provided the test file does not exist before the
\* fill and the cleanup_disk ends without an error response (each GET
\* /volumes compared showing a size and a file count for /app/data).
C4_FillThenCleanup ==
    (client.script = "fill_scenario" /\ ~exists(client.start, test_file)) =>
        /\ (Len(log) >= 3 /\ Shown(Rec(1)) /\ Shown(Rec(3))) =>
               /\ log[2].req.size_mb <= DiskCap
               /\ SizeOf(Rec(3)) >= SizeOf(Rec(1)) + log[2].req.size_mb * MB
               /\ FilesOf(Rec(3)) = FilesOf(Rec(1)) + 1
        /\ (Len(log) >= 4 /\ log[4].status = OK) =>
               /\ log[4].body.message = <<"Test file removed">>
               /\ Len(log) = 4 => ~exists(fs, test_file)
        /\ (Len(log) = 5 /\ Shown(Rec(1)) /\ Shown(Rec(5))) =>
               /\ log[4].status = OK
               /\ ~exists(fs, test_file)
               /\ SizeOf(Rec(5)) = SizeOf(Rec(1))
               /\ FilesOf(Rec(5)) = FilesOf(Rec(1))

C4_Witness ==
    /\ client.script = "fill_scenario" /\ ~exists(client.start, test_file)
    /\ Len(log) = 5
    /\ Rec(1).exists /\ Shown(Rec(1)) /\ Shown(Rec(3)) /\ Shown(Rec(5))
    /\ log[2].req.size_mb = DiskCap
    /\ FilesOf(Rec(1)) > 0
    /\ SizeOf(Rec(3)) = SizeOf(Rec(1)) + DiskCap * MB

\* C5, as claimed: get_disk_info always succeeds, and its partitions are the
\* enumerated partitions whose usage can be read and whose total is not 0,
\* in order: a total of 0 is left out and raises nothing.
C5_ZeroTotalSkipped ==
    \A i \in Exchanges("disk") :
        LET kept == SelectSeq(log[i].req.partitions,
                              LAMBDA p : ~p.denied /\ p.total # 0)
        IN  /\ log[i].status = OK
            /\ Len(log[i].body.partitions) = Len(kept)
            /\ \A k \in 1..Len(kept) :
                   /\ log[i].body.partitions[k].device = kept[k].device
                   /\ log[i].body.partitions[k].total # 0

\* the texts int() accepts: whitespace, an optional sign, one digit or more,
\* whitespace
WellFormed(source) ==
    /\ source.kind = "present"
    /\ LET t == source.text
       IN  \E a \in 1..Len(t) : \E b \in a..Len(t) :
               /\ \A k \in 1..(a - 1) : t[k] \in Whitespace
               /\ \A k \in (b + 1)..Len(t) : t[k] \in Whitespace
               /\ \/ \A k \in a..b : IsDigit(t[k])
                  \/ /\ t[a] \in {"-", "+"} /\ a < b
                     /\ \A k \in (a + 1)..b : IsDigit(t[k])

\* C6: get_memory_info always succeeds and embeds both cgroup values; each
\* of memory_limit and cgroup_memory is None exactly when its own source is
\* missing, unreadable or malformed, whatever the other source is; with no
\* cgroup accounting both are None.
C6_LimitResolverNeverFails ==
    \A i \in Exchanges("memory") :
        LET info == log[i].body.container_info
            cg == log[i].req.cgroup
        IN  /\ log[i].status = OK
            /\ DOMAIN info = {"memory_limit", "cgroup_memory"}
            /\ (info.memory_limit = None) <=> ~WellFormed(cg.limit_in_bytes)
            /\ (info.cgroup_memory = None) <=> ~WellFormed(cg.usage_in_bytes)
            /\ cg = NoCgroup =>
                   info.memory_limit = None /\ info.cgroup_memory = None

C6_Witness ==
    \E i \in Exchanges("memory") :
        /\ log[i].req.cgroup.limit_in_bytes = Present(<<"x">>)
        /\ log[i].req.cgroup.usage_in_bytes = Present(<<"-", "7", "\n">>)
        /\ log[i].body.container_info.memory_limit = None
        /\ log[i].body.container_info.cgroup_memory = Some(-7)

\* the files os.walk(top) lists: those in top and in the directories under
\* it, as far as every directory on the way can be listed
IsListableDir(f, d) == f[d].kind = "dir" /\ f[d].ok
Listed(f, top) ==
    {n \in Names :
        /\ f[n].kind = "file"
        /\ IsListableDir(f, top)
        /\ \/ Parent[n] = top
           \/ /\ Parent[n] \in Names /\ Parent[Parent[n]] = top
              /\ IsListableDir(f, Parent[n])}
\* those of them that can be stat'ed
Readable(f, top) == {n \in Listed(f, top) : f[n].ok}

\* the sum of the sizes of a set of files
RECURSIVE TotalSize(_, _)
TotalSize(f, S) ==
    IF S = {} THEN 0
    ELSE LET n == CHOOSE n \in S : TRUE IN f[n].size + TotalSize(f, S \ {n})

\* the complete records of a /volumes exchange, with their index
CompleteRecords(ex) ==
    {k \in DOMAIN ex.body.volumes : "size" \in DOMAIN ex.body.volumes[k]}

\* C7, as claimed: whatever files cannot be stat'ed, the walk completes, the
\* size is the sum of the sizes of the readable files only and the file
\* count is the number of the readable files only.
C7_Original ==
    \A i \in Exchanges("volumes") : \A k \in CompleteRecords(log[i]) :
        LET r == log[i].body.volumes[k]
        IN  /\ r.size = TotalSize(fs, Readable(fs, r.path))
            /\ r.files = Cardinality(Readable(fs, r.path))

\* C7, amended: the walk completes and the size is the sum of the sizes of
\* the readable files only; the file count is the number of the files the
\* walk lists, those that cannot be stat'ed included.
C7_WalkToleratesUnreadable ==
    \A i \in Exchanges("volumes") :
        /\ log[i].status = OK
        /\ \A k \in DOMAIN volume_paths :
               (exists(fs, volume_paths[k]) /\ k \notin log[i].req.faults)
                   => k \in CompleteRecords(log[i])
        /\ \A k \in CompleteRecords(log[i]) :
               LET r == log[i].body.volumes[k]
               IN  /\ r.size = TotalSize(fs, Readable(fs, r.path))
                   /\ r.files = Cardinality(Listed(fs, r.path))

C7_Witness ==
    \E i \in Exchanges("volumes") : \E k \in CompleteRecords(log[i]) :
        LET r == log[i].body.volumes[k]
        IN  /\ Cardinality(Readable(fs, r.path)) >= 2
            /\ Listed(fs, r.path) # Readable(fs, r.path)
            /\ r.size > 0
            /\ r.files = Cardinality(Readable(fs, r.path)) + 1

\* C8: get_volume_info always succeeds with exactly one record per candidate
\* path, in the order of the list, each of one of three shapes: path and
\* exists = FALSE alone for a path that does not exist; path, exists = TRUE
\* and error alone for a path on which a step failed; path, exists = TRUE,
\* is_mount, size and files, without error, otherwise.  The record of a path
\* without a failure is what it is when no path fails.
C8_OneRecordPerPath ==
    \A i \in Exchanges("volumes") :
        LET volumes == log[i].body.volumes
        IN  /\ log[i].status = OK
            /\ Len(volumes) = Len(volume_paths)
            /\ \A k \in 1..Len(volume_paths) :
                   LET r == volumes[k]
                       path == volume_paths[k]
                   IN  /\ r.path = path
                       /\ r.exists = exists(fs, path)
                       /\ ~exists(fs, path) => DOMAIN r = {"path", "exists"}
                       /\ (exists(fs, path) /\ k \in log[i].req.faults) =>
                              DOMAIN r = {"path", "exists", "error"}
                       /\ (exists(fs, path) /\ k \notin log[i].req.faults) =>
                              /\ DOMAIN r = {"path", "exists", "is_mount",
                                             "size", "files"}
                              /\ r = get_volume_info(fs, {}).body.volumes[k]

C8_Witness ==
    \E i \in Exchanges("volumes") :
        /\ log[i].req.faults = {2}
        /\ ~exists(fs, volume_paths[1])
        /\ "error" \in DOMAIN log[i].body.volumes[2]
        /\ "size" \in DOMAIN log[i].body.volumes[4]

\* C9, as claimed: a fill_disk call within the cap answers 507 "Disk full"
\* only when the filesystem has no room (ENOSPC); any other OSError of
\* makedirs, open or write ends in another, generic failure.
C9_DiskFullDistinct ==
    \A i \in Exchanges("fill") :
        (log[i].req.size_mb <= DiskCap /\ log[i].req.fault.at # "") =>
            /\ log[i].status # OK
            /\ (log[i].status = 507) <=> (log[i].req.fault.errno = "ENOSPC")

\* C10, as claimed: stress_test always runs to its return, and its result
\* holds a duration >= 0 and four percentages: CPU and memory, each as
\* sampled before the load and as sampled after it.
C10_StressReportsBeforeAndAfter ==
    \A i \in Exchanges("stress") :
        /\ log[i].status = OK
        /\ Reached(log[i], "return")
        /\ log[i].body.duration >= 0
        /\ {"cpu_usage", "memory_usage"} \subseteq DOMAIN log[i].body
        /\ Cardinality(DOMAIN log[i].body \ {"message", "duration"}) >= 4

\* both racing calls are fill_disk calls that returned their success
FillsDone ==
    \A i \in DOMAIN calls :
        calls[i].op = "fill" /\ calls[i].pc = "done" /\ calls[i].status = OK

\* the call whose write happened last, and the other one
LastWriter == IF calls[1].wrote > calls[2].wrote THEN 1 ELSE 2
FirstWriter == 3 - LastWriter
Wrote(i) == FillBytes(calls[i].req.size_mb)

\* C11, as claimed: when two fill_disk calls whose open and write steps
\* interleave have both succeeded, the test file has the size written by the
\* call whose write happened last.
C11_Original ==
    FillsDone =>
        /\ fs[test_file].kind = "file"
        /\ fs[test_file].size = Wrote(LastWriter)

\* C11: when two fill_disk calls whose open and write steps interleave have
\* both succeeded, the test file has the size written by the last writer if
\* that call opened the file after the other call's write, and otherwise
\* the larger of the two sizes written.
C11_LastTruncateThenLargest ==
    FillsDone =>
        /\ fs[test_file].kind = "file"
        /\ fs[test_file].size =
               IF calls[LastWriter].opened > calls[FirstWriter].wrote
               THEN Wrote(LastWriter)
               ELSE IF Wrote(1) > Wrote(2) THEN Wrote(1) ELSE Wrote(2)

\* both calls opened the file before either wrote, the smaller write came
\* last, and the file keeps the size of the larger one
C11_Witness ==
    /\ FillsDone
    /\ calls[LastWriter].opened < calls[FirstWriter].wrote
    /\ calls[FirstWriter].opened < calls[LastWriter].wrote
    /\ Wrote(LastWriter) < Wrote(FirstWriter)
    /\ fs[test_file].size = Wrote(FirstWriter)

\* the racing cleanup_disk calls that have ended
CleanupsEnded == {i \in DOMAIN calls : calls[i].op = "cleanup" /\ calls[i].pc = "done"}

\* C12, as claimed: of two cleanup_disk calls whose exists check and remove
\* interleave, each ends with "Test file removed" or "No test file found",
\* never with the 500 error response, and at most one reports the removal.
C12_ConcurrentCleanupsNeverFail ==
    /\ \A i \in CleanupsEnded :
           /\ calls[i].status = OK
           /\ calls[i].body.message \in {<<"Test file removed">>, <<"No test file found">>}
    /\ Cardinality({i \in CleanupsEnded :
                        /\ calls[i].status = OK
                        /\ calls[i].body.message = <<"Test file removed">>}) <= 1

\* the step left the test file's existence and size as they were
TestFileKept ==
    /\ fs'[test_file].kind = fs[test_file].kind
    /\ fs'[test_file].size = fs[test_file].size

\* the step was a call of op that ended with this status
Called(op, status) ==
    /\ Len(log') = 1
    /\ log'[1].op = op
    /\ log'[1].status = status

FailedAt(at) == Called("fill", 507) /\ log'[1].req.fault.at = at

\* C13, as claimed: over a sequential run a successful fill_disk leaves the
\* test file with exactly size_mb * 1024 * 1024 bytes, a successful
\* cleanup_disk leaves it absent, and every other call (a failed fill_disk
\* or cleanup_disk, and each of the five other operations) leaves its
\* existence and size unchanged, so that the file exists exactly if the
\* most recent successful fill_disk or cleanup_disk call was a fill_disk.
C13_Original ==
    [][IF Called("fill", OK)
       THEN /\ fs'[test_file].kind = "file"
            /\ fs'[test_file].size = log'[1].req.size_mb * MB
       ELSE IF Called("cleanup", OK)
       THEN fs'[test_file].kind = "absent"
       ELSE TestFileKept]_vars

\* C13: over a sequential run a successful fill_disk leaves the test file
\* with exactly max(size_mb, 0) * 1024 * 1024 bytes, whatever it held
\* before; a successful cleanup_disk leaves it absent; a fill_disk whose
\* write failed leaves a file with only the bytes written before the
\* failure; every other call (a rejected fill_disk, one whose makedirs or
\* open failed, a failed cleanup_disk, and each of the five other
\* operations) leaves its existence and size unchanged.
C13_TestFileLifecycle ==
    [][IF Called("fill", OK)
       THEN /\ log'[1].req.size_mb <= DiskCap
            /\ fs'[test_file].kind = "file"
            /\ fs'[test_file].size =
                   (IF log'[1].req.size_mb > 0 THEN log'[1].req.size_mb ELSE 0) * MB
       ELSE IF Called("cleanup", OK)
       THEN fs'[test_file].kind = "absent"
       ELSE IF FailedAt("write")
       THEN /\ fs'[test_file].kind = "file"
            /\ fs'[test_file].size = log'[1].req.fault.written
       ELSE TestFileKept]_vars

\* a successful fill_disk of 1 MB has left a test file of exactly 1 MB
C13_Witness ==
    /\ Len(log) = 1
    /\ log[1].op = "fill" /\ log[1].status = OK
    /\ log[1].req.size_mb = 1
    /\ fs[test_file] = File(MB, TRUE)

\* C14, as claimed: a fill_disk call with size_mb <= 100 that ends in the
\* 507 leaves the test file's existence and size as they were before it.
C14_Original ==
    [][(Called("fill", 507) /\ log'[1].req.size_mb <= DiskCap) => TestFileKept]_vars

\* C14: a fill_disk call with size_mb <= 100 that ends in the 507 leaves the
\* test file's existence and size as they were if its makedirs or its open
\* failed; if its write failed, the file exists afterwards and holds only
\* the bytes written before the failure, fewer than requested.
C14_FailedFillKeepsOrTruncates ==
    [][(Called("fill", 507) /\ log'[1].req.size_mb <= DiskCap) =>
           IF FailedAt("write")
           THEN /\ fs'[test_file].kind = "file"
                /\ fs'[test_file].size = log'[1].req.fault.written
                /\ fs'[test_file].size < FillBytes(log'[1].req.size_mb)
           ELSE /\ log'[1].req.fault.at \in {"makedirs", "open"}
                /\ TestFileKept]_vars

\* a fill_disk whose write failed has left a partial, non-empty test file
C14_Witness ==
    /\ Len(log) = 1
    /\ log[1].op = "fill" /\ log[1].status = 507
    /\ log[1].req.size_mb <= DiskCap
    /\ log[1].req.fault.at = "write"
    /\ fs[test_file].kind = "file"
    /\ fs[test_file].size = log[1].req.fault.written
    /\ fs[test_file].size > 0

\* C15, as claimed: every allocate_memory call, whatever integer size_mb is,
\* ends in the 400 rejection (exactly if size_mb > 1000), in the 507 (only
\* if the allocation could not be satisfied) or in the success summary.
C15_AllocateOutcomesTotal ==
    \A i \in Exchanges("allocate") :
        /\ log[i].status \in {400, 507, OK}
        /\ log[i].status = 400 <=> log[i].req.size_mb > MemCap
        /\ log[i].status = 507 => log[i].req.oom

====
